---- MODULE Spec2Model ----
(***************************************************************************)
(* rebaseplan: reflog lookup, the six-state branch reconciler, the two sync *)
(* commands, the rebase tag planner and the notes propagator                *)
(* (src/src/rebaseplan/rebaseplan.py), over a model of the git repository   *)
(* the commands query and mutate.                                           *)
(***************************************************************************)
EXTENDS Integers, Sequences, FiniteSets, TLC

(* ------------------------------ bounds -------------------------------- *)
\* commit identifiers are opaque tokens 1..NumCommits
NumCommits == 3
\* branch names under the upstream remote are 1..NumNames (ordered as strings are)
NumNames == 2
\* longest reflog a reference holds in an initial repository
MaxLen == 2
\* most reflog entries, over all references, of a repository that
\* branch_sync_state is applied to on its own
MaxEntries == 4
\* largest --reflog-depth of a tag-planning pass
MaxDepth == 2
\* tag-planning passes in a row
MaxRuns == 2
\* notes refs (annotation namespaces) a repository holds
NumNoteRefs == 2
\* most notes refs one propagate_notes call is given
MaxNoteRefs == 2

Commits == 1..NumCommits
Names == 1..NumNames

(* --------------------------- BranchSyncStatus -------------------------- *)
NEW_LOCAL == 1
UNRELATED == 2
UPTODATE == 3
REMOTE_MODIFIED == 4
LOCAL_MODIFIED == 5
CONFLICTED == 6

BranchSyncStatus == {NEW_LOCAL, UNRELATED, UPTODATE, REMOTE_MODIFIED, LOCAL_MODIFIED, CONFLICTED}

(* ------------------------- the git repository -------------------------- *)
\* a reference that does not exist has tip NoRef and no reflog
NoRef == 0
\* names that are not feature branches
Upstream == "origin"
\* the main branch "develop": the one local branch that is no feature branch
Main == 0

AbsentRef == [tip |-> NoRef, log |-> <<>>]

VARIABLES
  remote,      \* remote[n]: the remote-tracking branch origin/n, when the pattern and
               \* --no-merged main select it: [tip, log], log newest first
  local,       \* local[n]: the local branch n: [tip, log]
  head,        \* the checked-out branch: a name, or Main
  pc,          \* "idle" | "sync_local" | "done" | "failed"
  command,     \* what ran: "none" | "sync_local" | "sync_remote" | "branch_sync_state" |
               \* "latest_of"
  dry_run,     \* the run's dry_run flag
  current,     \* retain_current_branch: the branch captured on entry
  states,      \* sorted(branch_sync_state(...)) of the run
  idx,         \* sync_local: position of the loop in states (1-based)
  cmds,        \* the mutating git commands handed to subprocess_run, in order
  out,         \* lines printed by the run
  seen,        \* the branches as branch_sync_state read them: [remote, local]
  lookup,      \* one call of latest_of: [reflog, commit_ids, found]
  tags,        \* refs/tags/rebase/last/: tags[name] is the tagged commit, or NoRef
  mbase,       \* mbase[c]: what git merge-base <c> <main> prints; NoRef when it fails
  plan,        \* tag_last_branches: the locals of the pass and its run history
  notes,       \* notes[notes_ref][c]: the note id commit c carries under the ref, or NoNote
  prop,        \* propagate_notes: the arguments and locals of the call
  first        \* the completed sync_local invocation before this one, if any

notevars == <<notes, prop>>

planvars == <<tags, mbase, plan, notes, prop, first>>

vars == <<remote, local, head, pc, command, dry_run, current, states, idx, cmds, out, seen, lookup,
          tags, mbase, plan, notes, prop, first>>

\* sequences over S of length 0..hi
SeqsUpTo(S, hi) == UNION {[1..k -> S] : k \in 0..hi}

\* what a reference can look like: absent, or a tip whose reflog is empty (a fresh
\* clone writes no reflog for remote-tracking branches; gc expires old entries) or
\* starts with the tip
RefStates == {AbsentRef} \cup UNION {
  {[tip |-> c, log |-> l] :
     l \in {<<>>} \cup {<<c>> \o r : r \in SeqsUpTo(Commits, MaxLen - 1)}} : c \in Commits}

(* ------------------------------ reflog --------------------------------- *)
\* ReflogEntry(commit_id, reflog_name, current_branch, i); reflog_name is the label
\* "<branch>@{...}" of position i and is carried by i
ReflogEntry(commit_id, i) == [commit_id |-> commit_id, current_branch |-> (i = 0), i |-> i]

\* latest_of's "return None"
None == [commit_id |-> 0, current_branch |-> FALSE, i |-> -1]

\* branch_reflog.__init__: one entry per line of git reflog show, enumerate()d from 0
branch_reflog(ref) == [k \in 1..Len(ref.log) |-> ReflogEntry(ref.log[k], k - 1)]

\* the scan from the oldest entry
RECURSIVE oldest_from(_, _, _)
oldest_from(reflog, commit_ids, k) ==
  IF k < 1 THEN None
  ELSE IF reflog[k].commit_id \in commit_ids THEN reflog[k]
  ELSE oldest_from(reflog, commit_ids, k - 1)

latest_of_reversed(reflog, commit_ids) == oldest_from(reflog, commit_ids, Len(reflog))

RECURSIVE latest_from(_, _, _)
latest_from(reflog, commit_ids, k) ==
  IF k > Len(reflog) THEN None
  ELSE IF reflog[k].commit_id \in commit_ids THEN reflog[k]
  ELSE latest_from(reflog, commit_ids, k + 1)

\* branch_reflog.latest_of: the for loop over self.reflog, first hit returned
latest_of(reflog, commit_ids) == latest_from(reflog, commit_ids, 1)

\* branch_reflog.commit_ids
commit_ids(reflog) == {reflog[k].commit_id : k \in DOMAIN reflog}

(* --------------------------- git queries ------------------------------- *)
\* a remote branch name "<upstream>/<name>" is the pair <<upstream, name>>
RemoteName(n) == <<Upstream, n>>

RECURSIVE SortedSeq(_)
SortedSeq(S) ==
  IF S = {} THEN <<>>
  ELSE LET m == CHOOSE x \in S : \A y \in S : x <= y
       IN <<m>> \o SortedSeq(S \ {m})

\* list_branches with remote_branches + --no-merged main, on the remote-tracking
\* branches rem: the selected ones that exist, in git's (name) order
list_branches(rem) ==
  LET sel == {n \in Names : rem[n].tip # NoRef}
      srt == SortedSeq(sel)
  IN [k \in DOMAIN srt |-> RemoteName(srt[k])]

branch_exists_always(loc, n) == TRUE

\* branch_exists: git branch --list <name> prints a line
branch_exists(loc, n) == loc[n].tip # NoRef

\* ref_sha: git rev-parse
ref_sha(ref) == ref.tip

(* -------------------------- branch_sync_state -------------------------- *)
BranchSyncState(status, local_branch, remote_branch, local_reflog, remote_reflog) ==
  [status |-> status, local_branch |-> local_branch, remote_branch |-> remote_branch,
   local_reflog |-> local_reflog, remote_reflog |-> remote_reflog]

\* the if/elif chain on the lookups: r1 = remote_reflog.latest_of(ref_sha(local)),
\* l1 = local_reflog.latest_of(ref_sha(remote)), and in the last else
\* r2 = remote_reflog.latest_of(local_reflog.commit_ids) and l2 the other way round
status_swapped_tests(r1, l1, r2, l2) ==
  IF r1 # None THEN REMOTE_MODIFIED
  ELSE IF l1 # None THEN LOCAL_MODIFIED
  ELSE IF r2 = None /\ l2 = None THEN UNRELATED
  ELSE CONFLICTED

status_inverted_intersection(r1, l1, r2, l2) ==
  IF r1 # None /\ r1.current_branch THEN UPTODATE
  ELSE IF r1 # None THEN REMOTE_MODIFIED
  ELSE IF l1 # None THEN LOCAL_MODIFIED
  ELSE IF r2 = None /\ l2 = None THEN CONFLICTED
  ELSE UNRELATED

status_of(r1, l1, r2, l2) ==
  IF r1 # None /\ r1.current_branch THEN UPTODATE
  ELSE IF r1 # None THEN REMOTE_MODIFIED
  ELSE IF l1 # None THEN LOCAL_MODIFIED
  ELSE IF r2 = None /\ l2 = None THEN UNRELATED
  ELSE CONFLICTED

\* the body of the for loop for one remote branch, on the remote-tracking
\* branches rem and the local branches loc
sync_state_of(rem, loc, remote_branch) ==
  LET local_branch == remote_branch[2]
  IN IF ~branch_exists(loc, local_branch)
     THEN BranchSyncState(NEW_LOCAL, local_branch, remote_branch, None, None)
     ELSE
       LET remote_reflog == branch_reflog(rem[local_branch])
           local_reflog == branch_reflog(loc[local_branch])
           r1 == latest_of(remote_reflog, {ref_sha(loc[local_branch])})
           l1 == latest_of(local_reflog, {ref_sha(rem[local_branch])})
           r2 == latest_of(remote_reflog, commit_ids(local_reflog))
           l2 == latest_of(local_reflog, commit_ids(remote_reflog))
           status == status_of(r1, l1, r2, l2)
       IN IF status \in {UNRELATED, CONFLICTED}
          THEN BranchSyncState(status, local_branch, remote_branch, l2, r2)
          ELSE BranchSyncState(status, local_branch, remote_branch, l1, r1)

\* the generator without the continue behind the NEW_LOCAL yield
branch_sync_state_no_continue(rem, loc) ==
  LET listed == SelectSeq(list_branches(rem), LAMBDA b : b[1] = Upstream)
      one == [k \in DOMAIN listed |-> sync_state_of(rem, loc, listed[k])]
      new == SelectSeq(one, LAMBDA s : s.status = NEW_LOCAL)
  IN one \o [k \in DOMAIN new |-> [new[k] EXCEPT !.status = UNRELATED]]

\* the generator: one yield per listed branch that starts with "<upstream>/"
branch_sync_state(rem, loc) ==
  LET listed == SelectSeq(list_branches(rem), LAMBDA b : b[1] = Upstream)
  IN [k \in DOMAIN listed |-> sync_state_of(rem, loc, listed[k])]

\* the comparison that ignores the status
state_lt_by_name(s, t) == s.local_branch < t.local_branch

\* BranchSyncState is a tuple: states compare by status, then by local_branch
\* (the later fields never decide: the local names of one run are distinct)
state_lt(s, t) ==
  \/ s.status < t.status
  \/ s.status = t.status /\ s.local_branch < t.local_branch

\* x put into the sorted sequence S behind the elements that are not greater
Insert(S, x) ==
  LET k == Cardinality({j \in DOMAIN S : ~state_lt(x, S[j])})
  IN SubSeq(S, 1, k) \o <<x>> \o SubSeq(S, k + 1, Len(S))

\* sorted(): ascending and stable
RECURSIVE sorted(_)
sorted(seq) ==
  IF seq = <<>> THEN <<>>
  ELSE Insert(sorted(SubSeq(seq, 1, Len(seq) - 1)), seq[Len(seq)])

(* --------------------------- git mutations ----------------------------- *)
\* a reference moved to commit c: the reflog gets a new newest entry
MoveRef(ref, c) == [tip |-> c, log |-> <<c>> \o ref.log]

\* one mutating command handed to subprocess_run: run is FALSE when dry_run
\* printed it instead of executing it, ok is FALSE when it raised
Cmd(op, args, dry, ok) == [op |-> op, args |-> args, run |-> ~dry, ok |-> ok]

\* one printed line: a state line, the blank line between status groups, or
\* "Nothing to do"
Line(text, status, branch) == [text |-> text, status |-> status, branch |-> branch]

\* what git fetch <upstream> --prune can make of one remote-tracking branch
\* when the upstream branch moved, appeared or was deleted
FetchedRef(ref) ==
  ({AbsentRef} \cup {MoveRef(ref, c) : c \in Commits \ {ref.tip}}) \ {ref}

\* fetch() executing the command whatever dry_run says
fetch_ignoring_dry_run(dry) ==
  {remote} \cup
  UNION {{[remote EXCEPT ![n] = x] : x \in FetchedRef(remote[n])} : n \in Names}

\* fetch(): the remote-tracking branches after it. A dry run prints the command;
\* otherwise the upstream repository decides (here: at most one branch differs)
fetch(dry) ==
  IF dry THEN {remote}
  ELSE {remote} \cup
       UNION {{[remote EXCEPT ![n] = x] : x \in FetchedRef(remote[n])} : n \in Names}

\* git branch -q --track <local_branch> <remote_branch>
GitBranchTrack(loc, rem, n) ==
  [loc EXCEPT ![n] = [tip |-> rem[n].tip, log |-> <<rem[n].tip>>]]

\* git reset -q --hard given the local branch: nothing moves
GitResetHard_to_local(loc, rem, b, n) == loc

\* git reset -q --hard <remote_branch>, with the branch b checked out
GitResetHard(loc, rem, b, n) == [loc EXCEPT ![b] = MoveRef(loc[b], rem[n].tip)]

\* git push <upstream> -f <branches>: the upstream branches and their
\* remote-tracking branches move to the local tips
GitPush(rem, loc, branches) ==
  [n \in Names |-> IF n \in branches /\ rem[n].tip # loc[n].tip
                   THEN MoveRef(rem[n], loc[n].tip) ELSE rem[n]]

(* ------------------------------ Init ----------------------------------- *)
\* the commit ids of a reference's fetched reflog
LogIds(ref) == {ref.log[i] : i \in 1..Len(ref.log)}

\* the commit ids of a reference in the order git reports them
Flat(ref) == IF ref.tip = NoRef THEN <<>> ELSE <<ref.tip>> \o ref.log

\* commit ids are opaque and compared only within one branch pair: a pair's
\* commits are numbered in the order they first appear
FirstUseOrder(seq) ==
  \A k \in DOMAIN seq : \A c \in 1..(seq[k] - 1) : \E j \in 1..(k - 1) : seq[j] = c

\* a branch pair <<remote-tracking branch, local branch>> of an initial repository
PairStates ==
  UNION {{<<r, l>> : l \in {x \in RefStates : FirstUseOrder(Flat(r) \o Flat(x))}} :
         r \in RefStates}

\* the marker names of the namespace: rebase/last/<branch>/<i>,
\* rebase/last/__base__/<i> and rebase/last/__last_base__/<i>
TagName(kind, branch, i) == [kind |-> kind, branch |-> branch, i |-> i]

TagNames ==
  {TagName("branch", n, i) : n \in Names, i \in 1..MaxDepth}
    \cup {TagName(k, 0, i) : k \in {"__base__", "__last_base__"}, i \in 0..(NumCommits - 1)}

NoTags == [t \in TagNames |-> NoRef]

\* no tag-planning pass yet
NoPass == [depth |-> 0, branches |-> <<>>, bases |-> {}, last_bases |-> {}, runs |-> 0,
           prev |-> [tags |-> NoTags, depth |-> 0, ok |-> FALSE]]

\* the notes refs, and the id of "no note"
NoteRefs == 1..NumNoteRefs
NoNote == 0

\* a notes ref without notes
NoNotes == [c \in Commits |-> NoNote]

\* no propagate_notes call yet
NoProp == [notes_refs |-> <<>>, force |-> FALSE, reflogs |-> <<>>, r |-> 0, notes |-> NoNotes]

\* no invocation before this one
NoFirst == [ran |-> FALSE, states |-> <<>>, remote |-> [n \in Names |-> AbsentRef]]

\* a repository without markers and notes, on which no pass ran
NoPlan ==
  /\ first = NoFirst
  /\ tags = NoTags
  /\ mbase = [c \in Commits |-> NoRef]
  /\ plan = NoPass
  /\ notes = [r \in NoteRefs |-> NoNotes]
  /\ prop = NoProp

\* no run yet
NoRun ==
  /\ NoPlan
  /\ pc = "idle"
  /\ command = "none"
  /\ dry_run = FALSE
  /\ current = Main
  /\ states = <<>>
  /\ idx = 0
  /\ cmds = <<>>
  /\ out = <<>>
  /\ lookup = [reflog |-> <<>>, commit_ids |-> {}, found |-> None]

Init ==
  /\ \E f \in [Names -> PairStates] :
       /\ remote = [n \in Names |-> f[n][1]]
       /\ local = [n \in Names |-> f[n][2]]
  /\ head \in {Main} \cup {n \in Names : local[n].tip # NoRef}
  /\ seen = [remote |-> remote, local |-> local]
  /\ NoRun

(* ----------------------------- sync_remote ----------------------------- *)
\* the loop batching every branch whose state is not UPTODATE-or-lower
force_pushes_with_conflicted(sts) ==
  LET lm == SelectSeq(sts, LAMBDA s : s.status >= LOCAL_MODIFIED)
  IN [k \in DOMAIN lm |-> lm[k].local_branch]

\* the for loop of sync_remote: the local branches of the LOCAL_MODIFIED states
force_pushes_of(sts) ==
  LET lm == SelectSeq(sts, LAMBDA s : s.status = LOCAL_MODIFIED)
  IN [k \in DOMAIN lm |-> lm[k].local_branch]

\* the lines the loop prints when not verbose
remote_report(sts) ==
  LET shown == SelectSeq(sts, LAMBDA s : s.status \in {CONFLICTED, REMOTE_MODIFIED})
  IN [k \in DOMAIN shown |-> Line("state", shown[k].status, shown[k].local_branch)]

\* ok: whether git push succeeds
sync_remote(dry, ok) ==
  /\ pc = "idle"
  /\ command' = "sync_remote"
  /\ dry_run' = dry
  /\ \E r \in fetch(dry) :
       LET sts == sorted(branch_sync_state(r, local))
           force_pushes == force_pushes_of(sts)
           pushed == {force_pushes[k] : k \in DOMAIN force_pushes}
       IN /\ states' = sts
          /\ seen' = [remote |-> r, local |-> local]
          /\ IF force_pushes # <<>>
             THEN /\ cmds' = <<Cmd("fetch", {}, dry, TRUE), Cmd("push -f", pushed, dry, dry \/ ok)>>
                  /\ out' = remote_report(sts)
                  /\ remote' = (IF dry \/ ~ok THEN r ELSE GitPush(r, local, pushed))
                  /\ pc' = (IF dry \/ ok THEN "done" ELSE "failed")
             ELSE /\ cmds' = <<Cmd("fetch", {}, dry, TRUE)>>
                  /\ out' = Append(remote_report(sts), Line("Nothing to do", 0, 0))
                  /\ remote' = r
                  /\ pc' = "done"
  /\ UNCHANGED <<local, head, current, idx, lookup>>
  /\ UNCHANGED planvars

SyncRemote == \E dry \in BOOLEAN, ok \in BOOLEAN : sync_remote(dry, ok)

(* ------------------------------ sync_local ----------------------------- *)
\* entering the with block (retain_current_branch up to its yield), fetch, and
\* sorted(branch_sync_state(...)), which runs the generator to its end
sync_local_start(dry) ==
  /\ pc = "idle"
  /\ command' = "sync_local"
  /\ dry_run' = dry
  /\ current' = head
  /\ remote' \in fetch(dry)
  /\ states' = sorted(branch_sync_state(remote', local))
  /\ seen' = [remote |-> remote', local |-> local]
  /\ cmds' = <<Cmd("fetch", {}, dry, TRUE)>>
  /\ idx' = 1
  /\ pc' = "sync_local"
  /\ UNCHANGED <<local, head, out, lookup>>
  /\ UNCHANGED planvars

SyncLocalStart == \E dry \in BOOLEAN : sync_local_start(dry)

\* the chain with LOCAL_MODIFIED handled as REMOTE_MODIFIED is
handling_resets_local_modified(status) ==
  IF status = NEW_LOCAL THEN "track"
  ELSE IF status \in {REMOTE_MODIFIED, LOCAL_MODIFIED} THEN "reset"
  ELSE "print"

\* the if/elif chain of the loop: what sync_local does with a state of this status
handling(status) ==
  IF status = NEW_LOCAL THEN "track"
  ELSE IF status = REMOTE_MODIFIED THEN "reset"
  ELSE "print"

\* one iteration of the for loop; ok: whether git checkout succeeds
sync_local_step(ok) ==
  /\ pc = "sync_local"
  /\ idx <= Len(states)
  /\ LET state == states[idx]
         n == state.local_branch
         last_status == IF idx = 1 THEN 0 ELSE states[idx - 1].status
     IN /\ out' = out \o (IF last_status # state.status THEN <<Line("", 0, 0)>> ELSE <<>>)
                      \o <<Line("state", state.status, n)>>
        /\ IF handling(state.status) = "track"
           THEN /\ cmds' = Append(cmds, Cmd("branch --track", {n}, dry_run, TRUE))
                /\ local' = (IF dry_run THEN local ELSE GitBranchTrack(local, remote, n))
                /\ UNCHANGED <<head, pc>>
           ELSE IF handling(state.status) = "reset"
           THEN IF dry_run
                THEN /\ cmds' = cmds \o <<Cmd("checkout -q", {n}, TRUE, TRUE),
                                          Cmd("reset --hard", {n}, TRUE, TRUE)>>
                     /\ UNCHANGED <<local, head, pc>>
                ELSE IF ok
                THEN /\ cmds' = cmds \o <<Cmd("checkout -q", {n}, FALSE, TRUE),
                                          Cmd("reset --hard", {n}, FALSE, TRUE)>>
                     /\ head' = n
                     /\ local' = GitResetHard(local, remote, n, n)
                     /\ pc' = pc
                ELSE /\ cmds' = Append(cmds, Cmd("checkout -q", {n}, FALSE, FALSE))
                     /\ pc' = "failed"
                     /\ UNCHANGED <<local, head>>
           ELSE UNCHANGED <<cmds, local, head, pc>>
  /\ idx' = idx + 1
  /\ UNCHANGED <<remote, command, dry_run, current, states, seen, lookup>>
  /\ UNCHANGED planvars

SyncLocalStep == \E ok \in BOOLEAN : sync_local_step(ok)

\* leaving the with block: retain_current_branch after its yield
retain_current_branch_exit ==
  /\ pc = "sync_local"
  /\ idx > Len(states)
  /\ IF current # head
     THEN /\ cmds' = Append(cmds, Cmd("checkout", {current}, dry_run, TRUE))
          /\ head' = (IF dry_run THEN head ELSE current)
     ELSE UNCHANGED <<cmds, head>>
  /\ pc' = "done"
  /\ UNCHANGED <<remote, local, command, dry_run, current, states, idx, out, seen, lookup>>
  /\ UNCHANGED planvars

SyncLocalExit == retain_current_branch_exit

Next == SyncRemote \/ SyncLocalStart \/ SyncLocalStep \/ SyncLocalExit

Spec == Init /\ [][Next]_vars

(* --------------------- branch_sync_state on its own --------------------- *)
\* the reflog entries of a branch pair
Entries(p) == Len(p[1].log) + Len(p[2].log)

\* the branch pairs by the reflog entries they hold
PairsByEntries ==
  [k \in 0..(2 * MaxLen) |-> UNION {IF Entries(q) = k THEN {q} ELSE {} : q \in PairStates}]

\* the repository is one of those whose branch pairs, the pairs of acc and n
\* more drawn from pairs, hold at most e reflog entries beyond those of acc
RECURSIVE Repos(_, _, _, _)
Repos(n, e, acc, pairs) ==
  IF n = 0
  THEN /\ remote = [m \in Names |-> acc[m][1]]
       /\ local = [m \in Names |-> acc[m][2]]
  ELSE \E k \in {j \in DOMAIN pairs : j <= e} :
         \E p \in pairs[k] : Repos(n - 1, e - k, Append(acc, p), pairs)

ClassifyInit ==
  /\ Repos(NumNames, MaxEntries, <<>>, PairsByEntries)
  /\ head = Main
  /\ seen = [remote |-> remote, local |-> local]
  /\ NoRun

\* the generator run to its end, in the order of its yields
Classify ==
  /\ pc = "idle"
  /\ pc' = "done"
  /\ command' = "branch_sync_state"
  /\ states' = branch_sync_state(remote, local)
  /\ UNCHANGED <<remote, local, head, dry_run, current, idx, cmds, out, seen, lookup>>
  /\ UNCHANGED planvars

SpecClassify == ClassifyInit /\ [][Classify]_vars

(* ------------------------ sync_local, then again ------------------------ *)
\* the command line is given again after a sync_local --force that returned: a
\* new process, on the repository the first one left
main_again ==
  /\ pc = "done"
  /\ command = "sync_local"
  /\ ~dry_run
  /\ ~first.ran
  /\ first' = [ran |-> TRUE, states |-> states, remote |-> remote]
  /\ pc' = "idle"
  /\ command' = "none"
  /\ dry_run' = FALSE
  /\ current' = Main
  /\ states' = <<>>
  /\ idx' = 0
  /\ cmds' = <<>>
  /\ out' = <<>>
  /\ seen' = [remote |-> remote, local |-> local]
  /\ UNCHANGED <<remote, local, head, lookup, tags, mbase, plan, notes, prop>>

MainAgain == main_again

\* a repository of at most MaxEntries reflog entries, any existing branch
\* checked out
TwiceInit ==
  /\ Repos(NumNames, MaxEntries, <<>>, PairsByEntries)
  /\ head \in {Main} \cup {n \in Names : local[n].tip # NoRef}
  /\ seen = [remote |-> remote, local |-> local]
  /\ NoRun

TwiceNext == Next \/ MainAgain

SpecTwice == TwiceInit /\ [][TwiceNext]_vars

(* ------------------------- the rebase tag planner ----------------------- *)
\* the markers that exist
Existing(tg) == {t \in TagNames : tg[t] # NoRef}

\* remove_old_tags left without its git tag -d
remove_old_tags_keeps(tg) == tg

\* remove_old_tags: every name for-each-ref lists under the namespace is deleted
remove_old_tags(tg) == [t \in TagNames |-> IF t \in Existing(tg) THEN NoRef ELSE tg[t]]

\* merge_base(ref, main), ref resolving to commit c
merge_base(c) == mbase[c]

\* head_reflog taking the lines from the current position on
head_reflog_from_current(ref, n) ==
  SubSeq(ref.log, 1, IF n < Len(ref.log) THEN n ELSE Len(ref.log))

\* head_reflog(branch, n) behind the branch name it yields first: the reflog
\* lines [1:n], as the commits their labels <branch>@{i} resolve to
head_reflog(ref, n) ==
  SubSeq(ref.log, 2, IF n < Len(ref.log) THEN n ELSE Len(ref.log))

\* last_bases taken whole
last_only_all(last_bases, bases) == last_bases

\* last_bases - bases
last_only(last_bases, bases) == last_bases \ bases

\* the orders in which enumerate() can walk a set of commit ids: a set of str
\* iterates in hash order, and str hashes are salted per process
Orders(S) == {f \in [1..Cardinality(S) -> S] : \A i, j \in DOMAIN f : f[i] = f[j] => i = j}

\* the local branches the pattern and --no-merged main select, in git's order
tag_branches(loc) == SortedSeq({n \in Names : loc[n].tip # NoRef})

\* tag_last_branches up to its for loop: remove_old_tags, list_branches
tag_last_branches_start(d) ==
  /\ pc \in {"idle", "done", "failed"}
  /\ command \in {"none", "tag_last_branches"}
  /\ plan.runs < MaxRuns
  /\ command' = "tag_last_branches"
  /\ tags' = remove_old_tags(tags)
  /\ cmds' = (IF Existing(tags) # {}
               THEN <<Cmd("tag -d", Existing(tags), FALSE, TRUE)>> ELSE <<>>)
  /\ plan' = [depth |-> d, branches |-> tag_branches(local), bases |-> {}, last_bases |-> {},
               runs |-> plan.runs + 1,
               prev |-> [tags |-> tags, depth |-> plan.depth, ok |-> (pc = "done")]]
  /\ idx' = 1
  /\ pc' = "tag_last_branches"
  /\ UNCHANGED <<remote, local, head, dry_run, current, states, out, seen, lookup, mbase>>
  /\ UNCHANGED notevars
  /\ UNCHANGED first

TagLastBranchesStart == \E d \in 0..MaxDepth : tag_last_branches_start(d)

\* one iteration of for branch in branches: merge_base(branch, main), then per
\* reflog line git tag -f and merge_base(tag, main); a merge_base that fails
\* raises out of the pass
tag_last_branches_step ==
  /\ pc = "tag_last_branches"
  /\ idx <= Len(plan.branches)
  /\ LET branch == plan.branches[idx]
         log == head_reflog(local[branch], 1 + plan.depth)
         failing == {i \in DOMAIN log : merge_base(log[i]) = NoRef}
         \* the last tag the iteration creates
         upto == IF failing = {} THEN Len(log)
                 ELSE CHOOSE i \in failing : \A j \in failing : i <= j
     IN IF merge_base(ref_sha(local[branch])) = NoRef
        THEN /\ pc' = "failed"
             /\ UNCHANGED <<tags, cmds, plan>>
        ELSE /\ tags' = [t \in TagNames |->
                           IF t.kind = "branch" /\ t.branch = branch /\ t.i \in 1..upto
                           THEN log[t.i] ELSE tags[t]]
             /\ cmds' = cmds \o [i \in 1..upto |->
                                    Cmd("tag -f", {TagName("branch", branch, i)}, FALSE, TRUE)]
             /\ plan' = [plan EXCEPT
                           !.bases = @ \cup {merge_base(ref_sha(local[branch]))},
                           !.last_bases = @ \cup {merge_base(log[i]) : i \in (1..upto) \ failing}]
             /\ pc' = (IF failing = {} THEN pc ELSE "failed")
  /\ idx' = idx + 1
  /\ UNCHANGED <<remote, local, head, command, dry_run, current, states, out, seen, lookup, mbase>>
  /\ UNCHANGED notevars
  /\ UNCHANGED first

TagLastBranchesStep == tag_last_branches_step

\* the two loops over enumerate(bases) and enumerate(last_bases - bases)
tag_last_branches_bases(order, last_order) ==
  /\ pc = "tag_last_branches"
  /\ idx > Len(plan.branches)
  /\ tags' = [t \in TagNames |->
                IF t.kind = "__base__" /\ t.i + 1 \in DOMAIN order THEN order[t.i + 1]
                ELSE IF t.kind = "__last_base__" /\ t.i + 1 \in DOMAIN last_order
                THEN last_order[t.i + 1]
                ELSE tags[t]]
  /\ cmds' = cmds
              \o [i \in DOMAIN order |-> Cmd("tag -f", {TagName("__base__", 0, i - 1)}, FALSE, TRUE)]
              \o [i \in DOMAIN last_order |->
                    Cmd("tag -f", {TagName("__last_base__", 0, i - 1)}, FALSE, TRUE)]
  /\ pc' = "done"
  /\ UNCHANGED <<remote, local, head, command, dry_run, current, states, idx, out, seen, lookup,
                  mbase, plan>>
  /\ UNCHANGED notevars
  /\ UNCHANGED first

TagLastBranchesBases ==
  \E order \in Orders(plan.bases), last_order \in Orders(last_only(plan.last_bases, plan.bases)) :
    tag_last_branches_bases(order, last_order)

\* what a local branch can look like when the planner runs
TagRefStates == {AbsentRef} \cup UNION {
  {[tip |-> c, log |-> l] :
     l \in {<<>>} \cup {<<c>> \o r : r \in SeqsUpTo(Commits, MaxLen)}} : c \in Commits}

\* the commit ids of the local branches, branch after branch
RECURSIVE FlatAll(_, _)
FlatAll(loc, n) == IF n = 0 THEN <<>> ELSE FlatAll(loc, n - 1) \o Flat(loc[n])

\* the local branches are those of acc and n more drawn from refs, which hold
\* at most e reflog entries; the commits are numbered in the order they first
\* appear
RECURSIVE Branches(_, _, _, _)
Branches(n, e, acc, refs) ==
  IF n = 0
  THEN local = [m \in Names |-> acc[m]]
  ELSE \E ref \in {x \in refs : /\ Len(x.log) <= e
                                  /\ FirstUseOrder(FlatAll(acc, Len(acc)) \o Flat(x))} :
         Branches(n - 1, e - Len(ref.log), Append(acc, ref), refs)

\* the markers an earlier pass over another repository left behind
StaleTags == [t \in TagNames |-> NumCommits]

TagsInit ==
  /\ Branches(NumNames, MaxEntries, <<>>, TagRefStates)
  /\ remote = [n \in Names |-> AbsentRef]
  /\ head = Main
  /\ seen = [remote |-> remote, local |-> local]
  /\ pc = "idle"
  /\ command = "none"
  /\ dry_run = FALSE
  /\ current = Main
  /\ states = <<>>
  /\ idx = 0
  /\ cmds = <<>>
  /\ out = <<>>
  /\ lookup = [reflog |-> <<>>, commit_ids |-> {}, found |-> None]
  /\ tags \in {NoTags, StaleTags}
  /\ mbase \in {m \in [Commits -> {NoRef} \cup Commits] :
                  \A c \in Commits : (\A n \in Names : c \notin LogIds(local[n]) \cup {local[n].tip})
                                         => m[c] = NoRef}
  /\ plan = NoPass
  /\ notes = [r \in NoteRefs |-> NoNotes]
  /\ prop = NoProp
  /\ first = NoFirst

TagsNext == TagLastBranchesStart \/ TagLastBranchesStep \/ TagLastBranchesBases

SpecTags == TagsInit /\ [][TagsNext]_vars

(* -------------------------- the notes propagator ------------------------ *)
\* notes_map(notes_ref): {commit id: note id} of git notes --ref <notes_ref> list;
\* a commit without a note is no key
notes_map(notes_ref) == notes[notes_ref]

\* the keys of a notes map: what "commit_id in notes" tests
Keys(map) == {c \in Commits : map[c] # NoNote}

\* the note git notes add -m <message> -C <note> stores: the message and the
\* content of <note>, a new object
Copy(note) == NumCommits + note

\* the skip that ignores force
skips_current_always(found, force) == found.current_branch

\* "if found.current_branch and not force: continue"
skips(found, force) == found.current_branch /\ ~force

\* propagate_notes up to its loops: the reflog of every listed branch is read
propagate_notes_start(notes_refs, force) ==
  /\ pc = "idle"
  /\ command' = "propagate_notes"
  /\ pc' = "propagate_notes"
  /\ prop' = [notes_refs |-> notes_refs, force |-> force,
               reflogs |-> [k \in DOMAIN tag_branches(local) |->
                             [branch |-> tag_branches(local)[k],
                              reflog |-> branch_reflog(local[tag_branches(local)[k]])]],
               r |-> 0, notes |-> NoNotes]
  /\ idx' = 0
  /\ cmds' = <<>>
  /\ UNCHANGED <<remote, local, head, dry_run, current, states, out, seen, lookup,
                  tags, mbase, plan, notes, first>>

PropagateNotesStart ==
  \E notes_refs \in SeqsUpTo(NoteRefs, MaxNoteRefs) \ {<<>>}, force \in BOOLEAN :
    propagate_notes_start(notes_refs, force)

\* for notes_ref in notes_refs: notes = notes_map(notes_ref)
propagate_notes_ref ==
  /\ pc = "propagate_notes"
  /\ prop.r = 0 \/ idx > Len(prop.reflogs)
  /\ prop.r < Len(prop.notes_refs)
  /\ prop' = [prop EXCEPT !.r = @ + 1, !.notes = notes_map(prop.notes_refs[prop.r + 1])]
  /\ idx' = 1
  /\ UNCHANGED <<remote, local, head, pc, command, dry_run, current, states, cmds, out, seen,
                  lookup, tags, mbase, plan, notes, first>>

PropagateNotesRef == propagate_notes_ref

\* one iteration of for reflog in reflogs; git notes add without -f fails on a
\* commit that has a note under the ref, and the failure raises out of the call
propagate_notes_step ==
  /\ pc = "propagate_notes"
  /\ prop.r >= 1
  /\ idx <= Len(prop.reflogs)
  /\ LET notes_ref == prop.notes_refs[prop.r]
         reflog == prop.reflogs[idx]
         found == latest_of(reflog.reflog, Keys(prop.notes))
         commit_id == ref_sha(local[reflog.branch])
         existing == notes[notes_ref][commit_id] # NoNote
         note == IF found = None THEN NoNote ELSE prop.notes[found.commit_id]
     IN IF found = None \/ skips(found, prop.force)
        THEN UNCHANGED <<cmds, notes, pc>>
        ELSE /\ cmds' = Append(cmds,
                    Cmd("notes add",
                        [notes_ref |-> notes_ref, branch |-> reflog.branch, commit_id |-> commit_id,
                         note |-> note, force |-> prop.force, i |-> found.i, existing |-> existing],
                        FALSE, prop.force \/ ~existing))
             /\ IF prop.force \/ ~existing
                THEN /\ notes' = [notes EXCEPT ![notes_ref][commit_id] = Copy(note)]
                     /\ pc' = pc
                ELSE /\ pc' = "failed"
                     /\ UNCHANGED notes
  /\ idx' = idx + 1
  /\ UNCHANGED <<remote, local, head, command, dry_run, current, states, out, seen, lookup,
                  tags, mbase, plan, prop, first>>

PropagateNotesStep == propagate_notes_step

\* both loops are through
propagate_notes_return ==
  /\ pc = "propagate_notes"
  /\ prop.r = Len(prop.notes_refs)
  /\ idx > Len(prop.reflogs)
  /\ pc' = "done"
  /\ UNCHANGED <<remote, local, head, command, dry_run, current, states, idx, cmds, out, seen,
                  lookup, tags, mbase, plan, notes, prop, first>>

PropagateNotesReturn == propagate_notes_return

\* the notes of an initial repository: the note of commit c has id c, and only
\* commits of the branches matter
NotesInit ==
  /\ Branches(NumNames, NumNames * MaxLen, <<>>, RefStates)
  /\ remote = [n \in Names |-> AbsentRef]
  /\ head = Main
  /\ seen = [remote |-> remote, local |-> local]
  /\ pc = "idle"
  /\ command = "none"
  /\ dry_run = FALSE
  /\ current = Main
  /\ states = <<>>
  /\ idx = 0
  /\ cmds = <<>>
  /\ out = <<>>
  /\ lookup = [reflog |-> <<>>, commit_ids |-> {}, found |-> None]
  /\ tags = NoTags
  /\ mbase = [c \in Commits |-> NoRef]
  /\ plan = NoPass
  /\ notes \in [NoteRefs -> {m \in [Commits -> {NoNote} \cup Commits] :
                     \A c \in Commits :
                       /\ m[c] \in {NoNote, c}
                       /\ (\A n \in Names : c \notin LogIds(local[n]) \cup {local[n].tip})
                            => m[c] = NoNote}]
  /\ prop = NoProp
  /\ first = NoFirst

NotesNext ==
  PropagateNotesStart \/ PropagateNotesRef \/ PropagateNotesStep \/ PropagateNotesReturn

SpecNotes == NotesInit /\ [][NotesNext]_vars

(* ------------------------- latest_of on its own ------------------------- *)
\* a reflog of any content, and any set of commit ids to look for
LatestInit ==
  /\ remote = [n \in Names |-> AbsentRef]
  /\ local = [n \in Names |-> AbsentRef]
  /\ head = Main
  /\ seen = [remote |-> remote, local |-> local]
  /\ pc = "idle"
  /\ command = "none"
  /\ dry_run = FALSE
  /\ current = Main
  /\ states = <<>>
  /\ idx = 0
  /\ cmds = <<>>
  /\ out = <<>>
  /\ NoPlan
  /\ \E l \in SeqsUpTo(Commits, MaxLen + 1), ids \in SUBSET Commits :
       lookup = [reflog |-> branch_reflog([tip |-> NoRef, log |-> l]),
                 commit_ids |-> ids, found |-> None]

LatestOf ==
  /\ pc = "idle"
  /\ pc' = "done"
  /\ command' = "latest_of"
  /\ lookup' = [lookup EXCEPT !.found = latest_of(lookup.reflog, lookup.commit_ids)]
  /\ UNCHANGED <<remote, local, head, dry_run, current, states, idx, cmds, out, seen>>
  /\ UNCHANGED planvars

SpecLatest == LatestInit /\ [][LatestOf]_vars

(* ============================== claims ================================== *)
\* a run has classified the branches
Classified == command \in {"sync_local", "sync_remote", "branch_sync_state"}

\* the names whose remote-tracking branch the run listed
Listed == {n \in Names : seen.remote[n].tip # NoRef}

\* the positions (1 = current) at which commit c occurs in a reference's reflog
Occ(ref, c) == {i \in 1..Len(ref.log) : ref.log[i] = c}

\* the local branch exists, as the run saw it
HasLocal(n) == seen.local[n].tip # NoRef

\* C1: for every selected remote branch whose local branch exists and points at
\* the commit the remote branch points at, the pair is classified UPTODATE,
\* whatever the two reflogs hold.
C1_EqualTipsAreUptodate ==
  \A k \in DOMAIN states :
    LET n == states[k].local_branch
    IN (HasLocal(n) /\ seen.local[n].tip = seen.remote[n].tip) => states[k].status = UPTODATE

\* C2: a pair is REMOTE_MODIFIED exactly when the local branch exists and its
\* current commit occurs in the remote branch's reflog, and only at positions
\* behind the current one.
C2_RemoteModifiedIff ==
  \A k \in DOMAIN states :
    LET n == states[k].local_branch
        at == Occ(seen.remote[n], seen.local[n].tip)
    IN states[k].status = REMOTE_MODIFIED <=> (HasLocal(n) /\ at # {} /\ 1 \notin at)

\* C2 witness: local at A, remote reflog [B (current), A], classified REMOTE_MODIFIED
C2_Witness ==
  \E k \in DOMAIN states :
    LET n == states[k].local_branch
    IN /\ states[k].status = REMOTE_MODIFIED
       /\ Len(seen.remote[n].log) >= 2
       /\ seen.remote[n].log[2] = seen.local[n].tip
       /\ seen.remote[n].log[1] # seen.local[n].tip

\* C3: a pair is LOCAL_MODIFIED exactly when the local branch exists, the remote
\* reflog does not hold the local branch's current commit, and the local reflog
\* holds the remote branch's current commit, at a position behind the current one.
C3_LocalModifiedIff ==
  \A k \in DOMAIN states :
    LET n == states[k].local_branch
        at == Occ(seen.local[n], seen.remote[n].tip)
    IN states[k].status = LOCAL_MODIFIED <=>
         /\ HasLocal(n)
         /\ Occ(seen.remote[n], seen.local[n].tip) = {}
         /\ at # {}
         /\ 1 \notin at

\* neither reflog holds the other branch's current commit
NeitherHoldsCurrent(n) ==
  /\ HasLocal(n)
  /\ Occ(seen.remote[n], seen.local[n].tip) = {}
  /\ Occ(seen.local[n], seen.remote[n].tip) = {}

\* C4: when neither reflog holds the other branch's current commit, the pair is
\* CONFLICTED if some commit id occurs in both reflogs and UNRELATED if none does,
\* and nothing else.
C4_ConflictedOrUnrelated ==
  \A k \in DOMAIN states :
    LET n == states[k].local_branch
        both == LogIds(seen.remote[n]) \cap LogIds(seen.local[n])
    IN NeitherHoldsCurrent(n) =>
         /\ both # {} => states[k].status = CONFLICTED
         /\ both = {} => states[k].status = UNRELATED

\* C4 witness: one pair as local [D, A] and remote [E, A] CONFLICTED, another
\* pair with disjoint reflogs UNRELATED
C4_Witness ==
  \E k, j \in DOMAIN states :
    /\ NeitherHoldsCurrent(states[k].local_branch)
    /\ NeitherHoldsCurrent(states[j].local_branch)
    /\ states[k].status = CONFLICTED
    /\ states[j].status = UNRELATED

\* C5: a selected remote branch <upstream>/<name> is NEW_LOCAL exactly when no
\* local branch <name> exists; its state names <name> as local_branch and the
\* full remote name as remote_branch.
C5_NewLocalIff ==
  /\ \A k \in DOMAIN states :
       LET n == states[k].local_branch
       IN /\ states[k].status = NEW_LOCAL <=> ~HasLocal(n)
          /\ states[k].remote_branch = <<Upstream, n>>
          /\ n \in Listed
  /\ Classified =>
       \A n \in Listed : ~HasLocal(n) =>
         \E k \in DOMAIN states :
           /\ states[k].status = NEW_LOCAL
           /\ states[k].local_branch = n
           /\ states[k].remote_branch = <<Upstream, n>>

\* C5 witness: a remote branch without a local branch, beside one that has one
C5_Witness ==
  \E k, j \in DOMAIN states :
    /\ states[k].status = NEW_LOCAL
    /\ ~HasLocal(states[k].local_branch)
    /\ states[j].status # NEW_LOCAL

\* C6: the run holds exactly one state per selected remote branch, and its status
\* is one of the six.
C6_OneStatePerBranch ==
  Classified =>
    /\ Len(states) = Cardinality(Listed)
    /\ \A n \in Listed :
         Cardinality({k \in DOMAIN states : states[k].remote_branch = <<Upstream, n>>}) = 1
    /\ \A k \in DOMAIN states : states[k].status \in BranchSyncStatus

\* C6 witness: two selected branches, two states, one of them NEW_LOCAL
C6_Witness ==
  /\ Classified
  /\ Cardinality(Listed) = 2
  /\ Len(states) = 2
  /\ \E k \in DOMAIN states : states[k].status = NEW_LOCAL

\* the entries of a reflog whose commit is among ids
Matches(reflog, ids) == {k \in DOMAIN reflog : reflog[k].commit_id \in ids}

\* C7: latest_of returns the entry of the smallest position among the entries
\* whose commit_id is in the set, and none exactly when there is no such entry.
C7_LatestOfIsNewestMatch ==
  command = "latest_of" =>
    LET m == Matches(lookup.reflog, lookup.commit_ids)
    IN /\ lookup.found = None <=> m = {}
       /\ m # {} =>
            /\ lookup.found \in {lookup.reflog[k] : k \in m}
            /\ \A k \in m : lookup.found.i <= lookup.reflog[k].i

\* C7 witness: a reflog with two matching entries, the newer one returned
C7_Witness ==
  /\ command = "latest_of"
  /\ Cardinality(Matches(lookup.reflog, lookup.commit_ids)) >= 2
  /\ lookup.found # None
  /\ lookup.found.i >= 1

\* the positions in cmds of the commands op
CmdsOf(op) == {k \in DOMAIN cmds : cmds[k].op = op}

\* the local branches of the states of a status in S
BranchesOf(S) == {states[k].local_branch : k \in {j \in DOMAIN states : states[j].status \in S}}

\* C8: sync_remote hands at most one push to git; its branches are exactly the
\* local branches classified LOCAL_MODIFIED; no other branch's remote moves; with
\* no LOCAL_MODIFIED pair there is no push and "Nothing to do" is printed.
C8_PushExactlyLocalModified ==
  command = "sync_remote" =>
    LET lm == BranchesOf({LOCAL_MODIFIED})
    IN /\ Cardinality(CmdsOf("push -f")) <= 1
       /\ \A k \in CmdsOf("push -f") : cmds[k].args = lm
       /\ \A n \in Names \ lm : remote[n] = seen.remote[n]
       /\ lm = {} =>
            /\ CmdsOf("push -f") = {}
            /\ \E i \in DOMAIN out : out[i].text = "Nothing to do"

\* C8 witness: a push of a LOCAL_MODIFIED branch was executed while another pair
\* is CONFLICTED or REMOTE_MODIFIED
C8_Witness ==
  /\ command = "sync_remote"
  /\ pc = "done"
  /\ \E k \in CmdsOf("push -f") : cmds[k].run /\ cmds[k].args # {}
  /\ BranchesOf({CONFLICTED, REMOTE_MODIFIED}) # {}
  /\ \E n \in BranchesOf({LOCAL_MODIFIED}) : remote[n] # seen.remote[n]

\* the statuses sync_local only reports
ReportOnly == {LOCAL_MODIFIED, UPTODATE, UNRELATED, CONFLICTED}

\* C9 as stated: a local branch whose pair is LOCAL_MODIFIED, UPTODATE, UNRELATED
\* or CONFLICTED keeps its commit through a sync_local run, and no checkout or
\* reset the run executes names it.
C9_ReportOnlyNeverCheckedOut ==
  command = "sync_local" =>
    \A n \in BranchesOf(ReportOnly) :
      /\ local[n] = seen.local[n]
      /\ \A k \in DOMAIN cmds :
           (cmds[k].run /\ cmds[k].op \in {"checkout -q", "checkout", "reset --hard"})
             => n \notin cmds[k].args

\* C9 amended: such a branch keeps its commit and its reflog, the loop never
\* checks it out or resets it, and the only checkout that names it is the last
\* command of the run, restoring the branch that was checked out before the run.
C9_ReportOnlyUntouched ==
  command = "sync_local" =>
    \A n \in BranchesOf(ReportOnly) :
      /\ local[n] = seen.local[n]
      /\ \A k \in DOMAIN cmds :
           /\ cmds[k].op \in {"checkout -q", "reset --hard", "branch --track"}
                => n \notin cmds[k].args
           /\ (cmds[k].op = "checkout" /\ n \in cmds[k].args)
                => (n = current /\ k = Len(cmds) /\ pc = "done")

\* C9 witness: a run that reset another branch has finished, restoring the
\* checkout to a branch it only reported
C9_Witness ==
  /\ command = "sync_local"
  /\ pc = "done"
  /\ ~dry_run
  /\ current \in BranchesOf(ReportOnly)
  /\ \E k \in CmdsOf("reset --hard") : cmds[k].run
  /\ \E k \in CmdsOf("checkout") : cmds[k].run /\ cmds[k].args = {current}
  /\ local[current] = seen.local[current]

\* C10: when a sync_local run that is no dry run has completed, every NEW_LOCAL
\* remote branch has a local branch of the stripped name at the remote branch's
\* commit, created by git branch --track, and every REMOTE_MODIFIED local branch
\* was checked out and hard-reset and points at the remote branch's commit.
C10_TrackedAndReset ==
  (command = "sync_local" /\ ~dry_run /\ pc = "done") =>
    \A k \in DOMAIN states :
      LET n == states[k].local_branch
      IN /\ states[k].status = NEW_LOCAL =>
              /\ local[n].tip = remote[n].tip
              /\ local[n].tip # NoRef
              /\ \E i \in CmdsOf("branch --track") : cmds[i].run /\ cmds[i].args = {n}
         /\ states[k].status = REMOTE_MODIFIED =>
              /\ local[n].tip = remote[n].tip
              /\ \E i \in CmdsOf("checkout -q") :
                   /\ cmds[i].run /\ cmds[i].ok /\ cmds[i].args = {n}
                   /\ cmds[i + 1].op = "reset --hard" /\ cmds[i + 1].args = {n}

\* C10 witness: a completed run with a NEW_LOCAL and a REMOTE_MODIFIED pair
C10_Witness ==
  /\ command = "sync_local"
  /\ ~dry_run
  /\ pc = "done"
  /\ BranchesOf({NEW_LOCAL}) # {}
  /\ BranchesOf({REMOTE_MODIFIED}) # {}

\* C11: a sync_local run leaves the branch checked out that was checked out when
\* it started, after normal completion and also when a git command of the run
\* failed and the failure propagated.
C11_RestoredOnEveryExit ==
  (command = "sync_local" /\ pc \in {"done", "failed"}) => head = current

\* a dry run has handed every command to the printer
AllPrinted == \A k \in DOMAIN cmds : ~cmds[k].run

\* the commands a sync_local loop issues for the states it has handled
RECURSIVE LoopCmds(_)
LoopCmds(k) ==
  IF k = 0 THEN <<>>
  ELSE LoopCmds(k - 1) \o
       (IF states[k].status = NEW_LOCAL
        THEN <<Cmd("branch --track", {states[k].local_branch}, TRUE, TRUE)>>
        ELSE IF states[k].status = REMOTE_MODIFIED
        THEN <<Cmd("checkout -q", {states[k].local_branch}, TRUE, TRUE),
               Cmd("reset --hard", {states[k].local_branch}, TRUE, TRUE)>>
        ELSE <<>>)

\* C12: in a dry run of sync_local or sync_remote no step changes a remote-tracking
\* branch, a local branch or the checkout; every command of the run (the fetch,
\* each tracking-branch creation, each checkout and reset, the push) is printed
\* and not executed; and the states are the classification of the repository as
\* it is.
C12_DryRunChangesNothing ==
  /\ [][dry_run' => (remote' = remote /\ local' = local /\ head' = head)]_vars
  /\ [](dry_run =>
         /\ AllPrinted
         /\ states = sorted(branch_sync_state(remote, local))
         /\ command = "sync_local" =>
              cmds = <<Cmd("fetch", {}, TRUE, TRUE)>> \o LoopCmds(idx - 1)
         /\ command = "sync_remote" =>
              /\ cmds[1] = Cmd("fetch", {}, TRUE, TRUE)
              /\ BranchesOf({LOCAL_MODIFIED}) # {} =>
                   cmds = <<cmds[1], Cmd("push -f", BranchesOf({LOCAL_MODIFIED}), TRUE, TRUE)>>
              /\ BranchesOf({LOCAL_MODIFIED}) = {} => Len(cmds) = 1)

\* C12 witness: a finished dry run of sync_local that printed a tracking-branch
\* creation and a checkout with its reset
C12_Witness ==
  /\ command = "sync_local"
  /\ dry_run
  /\ pc = "done"
  /\ CmdsOf("branch --track") # {}
  /\ CmdsOf("reset --hard") # {}
  /\ CmdsOf("checkout -q") # {}
  /\ AllPrinted
  /\ local = seen.local

\* the state lines a run has printed
StateLines == SelectSeq(out, LAMBDA l : l.text = "state")

\* C13: sync_local handles the states in non-decreasing status order, in the order
\* it prints them, and every tracking-branch creation comes before every checkout
\* and reset of a REMOTE_MODIFIED branch, whatever order the branches were listed in.
C13_CanonicalOrder ==
  command = "sync_local" =>
    /\ \A i, j \in DOMAIN states : i < j => states[i].status <= states[j].status
    /\ StateLines = [k \in 1..(idx - 1) |-> Line("state", states[k].status, states[k].local_branch)]
    /\ \A a \in CmdsOf("branch --track") :
         \A b \in CmdsOf("checkout -q") \cup CmdsOf("reset --hard") : a < b

\* C13 witness: the branch listed first is REMOTE_MODIFIED, the one listed after
\* it NEW_LOCAL, and the run created the second before it reset the first
C13_Witness ==
  /\ command = "sync_local"
  /\ pc = "done"
  /\ ~dry_run
  /\ \E k, j \in DOMAIN states :
       /\ states[k].status = NEW_LOCAL
       /\ states[j].status = REMOTE_MODIFIED
       /\ states[j].local_branch < states[k].local_branch
  /\ CmdsOf("branch --track") # {}
  /\ CmdsOf("reset --hard") # {}

\* a tag-planning pass has run to its end
PassDone == command = "tag_last_branches" /\ pc = "done"

\* the branches a pass selects
Selected == {n \in Names : local[n].tip # NoRef}

\* the existing markers of a kind, and the commits they point at
MarkersOf(kind) == {t \in Existing(tags) : t.kind = kind}
MarkedBy(kind) == {tags[t] : t \in MarkersOf(kind)}

\* the last reflog index of a branch that a pass of this depth tags
LastIndex(n) ==
  IF plan.depth < Len(local[n].log) - 1 THEN plan.depth ELSE Len(local[n].log) - 1

\* the merge-bases with main of the selected branches, and of the reflog
\* positions the pass tags
CurrentBases == {mbase[local[n].tip] : n \in Selected}
HistoricalBases == UNION {{mbase[local[n].log[i + 1]] : i \in 1..LastIndex(n)} : n \in Selected}

\* C14: after a pass no two base markers point at the same commit; the __base__
\* markers point at the distinct merge-bases of the selected branches, one marker
\* each, and the __last_base__ markers at the distinct merge-bases of the tagged
\* reflog positions that are not among the current ones, one marker each.
C14_OneMarkerPerBase ==
  PassDone =>
    /\ \A t, u \in MarkersOf("__base__") \cup MarkersOf("__last_base__") :
         tags[t] = tags[u] => t = u
    /\ MarkedBy("__base__") = CurrentBases
    /\ Cardinality(MarkersOf("__base__")) = Cardinality(CurrentBases)
    /\ MarkedBy("__last_base__") = HistoricalBases \ CurrentBases
    /\ Cardinality(MarkersOf("__last_base__")) = Cardinality(HistoricalBases \ CurrentBases)

\* C14 witness: two branches share their merge-base, one tagged reflog position
\* has that merge-base too and another has a different one
C14_Witness ==
  /\ PassDone
  /\ Cardinality(Selected) = 2
  /\ Cardinality(CurrentBases) = 1
  /\ HistoricalBases \cap CurrentBases # {}
  /\ HistoricalBases \ CurrentBases # {}
  /\ Cardinality(MarkersOf("__base__")) = 1

\* C15: when two passes of the same depth ran to their ends one after the other,
\* the markers after the second are the markers after the first.
C15_SecondPassSameMarkers ==
  (PassDone /\ plan.runs = 2 /\ plan.prev.ok /\ plan.prev.depth = plan.depth) =>
    tags = plan.prev.tags

\* the markers the commands of the pass created
Created == UNION {cmds[k].args : k \in CmdsOf("tag -f")}

\* C16: a pass deletes every marker that existed when it started, before it
\* creates any; from then on the namespace holds exactly the markers the pass
\* created, so after the pass none of an earlier run is left.
C16_OnlyThisPassMarkers ==
  command = "tag_last_branches" =>
    /\ \A a \in CmdsOf("tag -d") :
         /\ cmds[a].args = Existing(plan.prev.tags)
         /\ \A b \in CmdsOf("tag -f") : a < b
    /\ Existing(plan.prev.tags) # {} => CmdsOf("tag -d") # {}
    /\ Existing(tags) = Created

\* C16 witness: a pass ran to its end after a deeper pass, and a marker the
\* deeper pass had created is gone
C16_Witness ==
  /\ PassDone
  /\ plan.runs = 2
  /\ plan.prev.ok
  /\ plan.prev.depth > plan.depth
  /\ Existing(tags) # {}
  /\ \E t \in Existing(plan.prev.tags) : t \notin Existing(tags)

\* C17: when a pass aborted on a failing query, the namespace holds no marker.
C17_AbortLeavesNoMarker ==
  (command = "tag_last_branches" /\ pc = "failed") => Existing(tags) = {}

\* C18: after a pass of depth d, a branch whose reflog has k entries has the
\* markers rebase/last/<branch>/<i> for exactly the i in 1..min(d, k-1), each at
\* the commit of reflog position i; no other branch marker exists.
C18_MarkerPerReflogIndex ==
  PassDone =>
    \A n \in Names, i \in 1..MaxDepth :
      tags[TagName("branch", n, i)] =
        (IF n \in Selected /\ i <= LastIndex(n) THEN local[n].log[i + 1] ELSE NoRef)

\* C18 witness: one branch has more reflog entries behind the current one than
\* the depth, another has fewer
C18_Witness ==
  /\ PassDone
  /\ plan.depth >= 1
  /\ \E n, m \in Selected :
       /\ Len(local[n].log) - 1 > plan.depth
       /\ Len(local[m].log) - 1 < plan.depth
       /\ Len(local[m].log) >= 1
       /\ tags[TagName("branch", n, plan.depth)] = local[n].log[plan.depth + 1]
       /\ tags[TagName("branch", n, plan.depth)] # local[n].tip

\* the positions (1 = current) of a branch's reflog whose commit carries a note
\* in the notes ref as the call read it
Annotated(n) == {i \in 1..Len(local[n].log) : prop.notes[local[n].log[i]] # NoNote}

\* the write C19 prescribes for a branch: none, or one onto the branch's tip
\* with the note id of the newest annotated reflog position
Prescribed(notes_ref, n, force) ==
  LET at == Annotated(n)
      i == CHOOSE x \in at : \A y \in at : x <= y
  IN IF at = {} \/ (i = 1 /\ ~force) THEN <<>>
     ELSE <<[notes_ref |-> notes_ref, commit_id |-> local[n].tip,
             note |-> prop.notes[local[n].log[i]], i |-> i - 1]>>

\* the writes a sequence of commands asks for
Writes(cs) ==
  [k \in DOMAIN cs |-> [notes_ref |-> cs[k].args.notes_ref, commit_id |-> cs[k].args.commit_id,
                         note |-> cs[k].args.note, i |-> cs[k].args.i]]

\* a step of propagate_notes handles a branch under a notes ref
HandlesBranch == pc = "propagate_notes" /\ idx' = idx + 1 /\ prop.r >= 1

\* the step issues the write that is prescribed for its branch, or none
IssuesPrescribed ==
  Writes(SubSeq(cmds', Len(cmds) + 1, Len(cmds'))) =
    Prescribed(prop.notes_refs[prop.r], prop.reflogs[idx].branch, prop.force)

\* C19: whenever propagate_notes handles a branch under a notes ref, it takes the
\* newest reflog entry of the branch whose commit carries a note: with none it
\* writes nothing, with the current position it writes nothing unless force is
\* set, and otherwise it issues one git notes add onto the branch's tip with the
\* note id of that entry's commit; when git accepts the write the tip carries
\* the copy.
C19_WritesNewestAnnotated ==
  [][HandlesBranch =>
       /\ IssuesPrescribed
       /\ \A k \in (Len(cmds) + 1)..Len(cmds') :
            cmds'[k].ok =>
              notes'[cmds'[k].args.notes_ref][cmds'[k].args.commit_id] = Copy(cmds'[k].args.note)]_vars

\* C19 witness: a call without force has returned; it copied a note from a
\* position behind the current one onto one branch's tip and left alone another
\* branch whose current commit carried a note
C19_Witness ==
  /\ command = "propagate_notes"
  /\ pc = "done"
  /\ ~prop.force
  /\ \E k \in CmdsOf("notes add") :
       /\ cmds[k].ok
       /\ cmds[k].args.i >= 1
       /\ notes[cmds[k].args.notes_ref][cmds[k].args.commit_id] = Copy(cmds[k].args.note)
       /\ \E n \in Names :
            /\ n # cmds[k].args.branch
            /\ Len(local[n].log) >= 1
            /\ notes[cmds[k].args.notes_ref][local[n].tip] = local[n].tip
            /\ \A j \in CmdsOf("notes add") : cmds[j].args.branch # n

\* C20: without force, propagate_notes issues no git notes add for a commit that
\* carries a note under the notes ref at that moment.
C20_NeverWritesOntoAnnotated ==
  \A k \in CmdsOf("notes add") : ~cmds[k].args.force => ~cmds[k].args.existing

\* the local branches the invocation before this one created or reset
FirstSynced ==
  {first.states[k].local_branch :
     k \in {j \in DOMAIN first.states : first.states[j].status \in {NEW_LOCAL, REMOTE_MODIFIED}}}

\* a sync_local follows a sync_local that was no dry run and returned, and its
\* fetch found the upstream as the first one left it
SecondRun ==
  /\ command = "sync_local"
  /\ first.ran
  /\ seen.remote = first.remote

\* the second run creates no branch, checks none out and resets none
NothingToSync ==
  /\ \A k \in DOMAIN states : states[k].status \notin {NEW_LOCAL, REMOTE_MODIFIED}
  /\ CmdsOf("branch --track") \cup CmdsOf("checkout -q") \cup CmdsOf("reset --hard") = {}

\* C21: a sync_local that follows a completed sync_local (no dry run) with no
\* other repository change classifies no pair NEW_LOCAL or REMOTE_MODIFIED,
\* classifies every branch the first run created or reset UPTODATE, and issues
\* no branch creation, checkout or reset.
C21_ConvergesInOnePass ==
  SecondRun =>
    /\ NothingToSync
    /\ \A n \in FirstSynced :
         \E k \in DOMAIN states : states[k].local_branch = n /\ states[k].status = UPTODATE

====
